---- MODULE Spec2Model ----
(***************************************************************************)
(* MeterUsage: a gRPC data server (grpc_server/server.py) that loads a CSV *)
(* of electricity consumption once at startup and answers range-filtered   *)
(* queries, and an HTTP gateway (http_server/app.py) that validates the    *)
(* two optional bound strings and forwards the query to the gRPC server.   *)
(*                                                                         *)
(* Text is modelled by its structure.  A text value is a record            *)
(*   [kind, n, sfx]                                                        *)
(*   kind = "None"   Python None (a missing CSV field, an absent HTTP      *)
(*                   query parameter)                                      *)
(*   kind = "empty"  ''                                                    *)
(*   kind = "junk"   a text that is neither a datetime nor a number,       *)
(*                   "not-a-date"                                          *)
(*   kind = "iso"    "2024-01-01T0<n>:00:00<sfx>", the wall clock hour n   *)
(*                   followed by sfx: "" (no offset), "Z", "+00:00" or     *)
(*                   "+01:00"                                              *)
(*   kind = "num"    the decimal numeral of n, "<n>.0"                     *)
(* A parsed datetime is a record [kind, h, off]: kind = "None" (Python     *)
(* None), "naive" (no tzinfo) or "aware" (tzinfo with utc offset off, in   *)
(* hours).                                                                 *)
(***************************************************************************)
EXTENDS Integers, Sequences, FiniteSets

\* ---------------------------------------------------------------- bounds
MaxHour == 2
MaxUsage == 2
MaxRows == 2
MaxLoadRows == 2
Workers == 2

\* ------------------------------------------------------------------ text
PyNone == [kind |-> "None", n |-> 0, sfx |-> ""]
EmptyStr == [kind |-> "empty", n |-> 0, sfx |-> ""]
Junk == [kind |-> "junk", n |-> 0, sfx |-> ""]
Iso(h, sfx) == [kind |-> "iso", n |-> h, sfx |-> sfx]
Num(v) == [kind |-> "num", n |-> v, sfx |-> ""]

Hours == 0..MaxHour
Suffixes == {"", "Z", "+01:00"}
IsoTexts == {Iso(h, x) : h \in Hours, x \in Suffixes}

\* Python truthiness of an Optional[str]: None and '' are falsy.
StrTruthy(s) == s.kind \notin {"None", "empty"}

\* `x or ''`
OrEmpty(s) == IF StrTruthy(s) THEN s ELSE EmptyStr

\* str.replace('Z', '+00:00'): of the modelled texts only an iso text with
\* the suffix "Z" holds a 'Z'.
ReplaceZ(s) == IF s.kind = "iso" /\ s.sfx = "Z" THEN [s EXCEPT !.sfx = "+00:00"] ELSE s

\* ------------------------------------------------------------- datetimes
DtNone == [kind |-> "None", h |-> 0, off |-> 0]
Naive(h) == [kind |-> "naive", h |-> h, off |-> 0]
Aware(h, off) == [kind |-> "aware", h |-> h, off |-> off]

OffsetOf(sfx) == IF sfx = "+01:00" THEN 1 ELSE 0

\* datetime.fromisoformat: [ok |-> FALSE] stands for ValueError.  (Python
\* 3.11 and later also read a trailing "Z" as UTC; the code never passes one.)
FromIsoFormat(s) ==
    IF s.kind = "iso"
    THEN [ok |-> TRUE,
          dt |-> IF s.sfx = "" THEN Naive(s.n) ELSE Aware(s.n, OffsetOf(s.sfx))]
    ELSE [ok |-> FALSE, dt |-> DtNone]

\* Truthiness of an Optional[datetime]: only None is falsy.
DtTruthy(d) == d.kind # "None"

\* An order comparison (<, >) of two datetimes raises TypeError when one is
\* naive and the other aware.
Comparable(a, b) == a.kind = b.kind

\* Two naive datetimes compare by wall clock, two aware ones by UTC instant.
Utc(d) == d.h - d.off
DtLess(a, b) == Utc(a) < Utc(b)
DtGreater(a, b) == Utc(a) > Utc(b)

\* ---------------------------------------------------------- the CSV file
\* A file is [exists, header, rows]: header the column names, each row the
\* sequence of its fields (a short row has fewer fields than the header).
HasColumn(header, name) == \E i \in 1..Len(header) : header[i] = name

ColumnIndex(header, name) == CHOOSE i \in 1..Len(header) : header[i] = name

\* csv.DictReader: row[name] of a column the row is too short for is None.
Field(header, row, name) ==
    IF ColumnIndex(header, name) <= Len(row) THEN row[ColumnIndex(header, name)] ELSE PyNone

\* float(x): "ok", "ValueError" (a text that is no number) or "TypeError" (None).
FloatOf(s) ==
    IF s.kind = "num" THEN [tag |-> "ok", v |-> s.n]
    ELSE IF s.kind = "None" THEN [tag |-> "TypeError", v |-> 0]
    ELSE [tag |-> "ValueError", v |-> 0]

\* ConsumptionRecord.__init__ for a datetime_str that is a str.
ConsumptionRecord(datetime_str, energy_usage) ==
    [datetime_str |-> datetime_str,
     energy_usage |-> energy_usage,
     datetime_obj |-> IF FromIsoFormat(ReplaceZ(datetime_str)).ok
                      THEN FromIsoFormat(ReplaceZ(datetime_str)).dt
                      ELSE DtNone]

NoRecord == ConsumptionRecord(EmptyStr, 0)

\* The body of the row loop of _load_csv_data: "append" the record, "skip"
\* the row (ValueError, KeyError) or "abort" (any other exception leaves the
\* loop and is re-raised by the outer handler).
LoadRowResult(header, row) ==
    IF ~HasColumn(header, "DateTime") \/ ~HasColumn(header, "EnergyUsage")
    THEN [tag |-> "skip", rec |-> NoRecord]
    ELSE LET d == Field(header, row, "DateTime")
             f == FloatOf(Field(header, row, "EnergyUsage"))
         IN  IF f.tag = "ValueError" THEN [tag |-> "skip", rec |-> NoRecord]
             ELSE IF f.tag = "TypeError" THEN [tag |-> "abort", rec |-> NoRecord]
             ELSE IF d.kind = "None" THEN [tag |-> "abort", rec |-> NoRecord]
             ELSE [tag |-> "append", rec |-> ConsumptionRecord(d, f.v)]

\* ------------------------------------------------- the query, as functions
DetailRange == "start_datetime must be before end_datetime"
DetailInternal == "Internal server error: can't compare offset-naive and offset-aware datetimes"
DetailBadStart == "Invalid start_datetime format. Use ISO 8601 format."
DetailBadEnd == "Invalid end_datetime format. Use ISO 8601 format."
\* f"gRPC service error: {e.details()}"
DetailGrpc(details) == "gRPC service error: " \o details
DetailGatewayInternal == "Internal server error"
\* The details of the RpcError of a call that finds no server listening.
DetailUnavailable == "failed to connect to all addresses"
DetailUnhandled == "unhandled TypeError"

\* _parse_datetime: None for a falsy text and for one fromisoformat rejects.
ParseDatetime(s) ==
    IF ~StrTruthy(s) THEN DtNone
    ELSE IF FromIsoFormat(ReplaceZ(s)).ok THEN FromIsoFormat(ReplaceZ(s)).dt
    ELSE DtNone

\* RangeCheck comparing the wall clocks, the offsets ignored.
RangeCheckWallClock(start, end) ==
    IF ~(DtTruthy(start) /\ DtTruthy(end)) THEN "ok"
    ELSE IF ~Comparable(start, end) THEN "TypeError"
    ELSE IF start.h > end.h THEN "invalid"
    ELSE "ok"

\* `start_datetime and end_datetime and start_datetime > end_datetime` of
\* GetConsumptionData: "TypeError", "invalid" (the condition is true) or "ok".
RangeCheck(start, end) ==
    IF ~(DtTruthy(start) /\ DtTruthy(end)) THEN "ok"
    ELSE IF ~Comparable(start, end) THEN "TypeError"
    ELSE IF DtGreater(start, end) THEN "invalid"
    ELSE "ok"

\* One iteration of the loop of _filter_records: "skip", "keep" or "TypeError".
FilterOne(rec, start, end) ==
    IF ~DtTruthy(rec.datetime_obj) THEN "skip"
    ELSE IF DtTruthy(start) /\ ~Comparable(rec.datetime_obj, start) THEN "TypeError"
    ELSE IF DtTruthy(start) /\ DtLess(rec.datetime_obj, start) THEN "skip"
    ELSE IF DtTruthy(end) /\ ~Comparable(rec.datetime_obj, end) THEN "TypeError"
    ELSE IF DtTruthy(end) /\ DtGreater(rec.datetime_obj, end) THEN "skip"
    ELSE "keep"

\* AppendFiltered inserting at the front.
PrependFiltered(filtered, rec) == <<rec>> \o filtered

\* filtered_records.append(record)
AppendFiltered(filtered, rec) == Append(filtered, rec)

\* _filter_records as a whole: [err |-> TRUE] when an iteration raises.
RECURSIVE FilterFrom(_, _, _, _, _)
FilterFrom(recs, i, start, end, acc) ==
    IF i > Len(recs) THEN [err |-> FALSE, out |-> acc]
    ELSE IF FilterOne(recs[i], start, end) = "TypeError" THEN [err |-> TRUE, out |-> <<>>]
    ELSE IF FilterOne(recs[i], start, end) = "keep"
         THEN FilterFrom(recs, i + 1, start, end, AppendFiltered(acc, recs[i]))
    ELSE FilterFrom(recs, i + 1, start, end, acc)

FilterRecords(recs, start, end) == FilterFrom(recs, 1, start, end, <<>>)

\* consumption_pb2.ConsumptionRecord(datetime=..., energy_usage=...)
GrpcRecord(rec) == [datetime |-> rec.datetime_str, energy_usage |-> rec.energy_usage]

BuildResponse(filtered) == [i \in 1..Len(filtered) |-> GrpcRecord(filtered[i])]

\* GetConsumptionData run alone on a store: what the caller receives.
Reply(code, details, resp) == [code |-> code, details |-> details, resp |-> resp]

QueryAlone(recs, s, e) ==
    LET start == ParseDatetime(s)
        end == ParseDatetime(e)
    IN  IF RangeCheck(start, end) = "TypeError" THEN Reply("INTERNAL", DetailInternal, <<>>)
        ELSE IF RangeCheck(start, end) = "invalid"
             THEN Reply("INVALID_ARGUMENT", DetailRange, <<>>)
        ELSE IF FilterRecords(recs, start, end).err
             THEN Reply("INTERNAL", DetailInternal, <<>>)
        ELSE Reply("OK", "", BuildResponse(FilterRecords(recs, start, end).out))

\* validate_datetime of the gateway.
ValidateDatetime(s) == FromIsoFormat(ReplaceZ(s)).ok

\* GwBadBound testing `is not None` where the code tests truthiness.
GwBadBoundNotNone(s) == s.kind # "None" /\ ~ValidateDatetime(s)

\* The gateway's `if start_datetime and not validate_datetime(start_datetime)`.
GwBadBound(s) == StrTruthy(s) /\ ~ValidateDatetime(s)

\* GwRangeCheck with the range validation left out.
GwRangeCheckSkipped(s, e) == "skip"

\* The gateway's range validation: "skip" (a bound is falsy), "TypeError"
\* (not a ValueError, so it leaves the handler), "invalid" or "ok".
GwRangeCheck(s, e) ==
    IF ~(StrTruthy(s) /\ StrTruthy(e)) THEN "skip"
    ELSE IF ~FromIsoFormat(ReplaceZ(s)).ok \/ ~FromIsoFormat(ReplaceZ(e)).ok THEN "skip"
    ELSE IF ~Comparable(FromIsoFormat(ReplaceZ(s)).dt, FromIsoFormat(ReplaceZ(e)).dt)
         THEN "TypeError"
    ELSE IF DtGreater(FromIsoFormat(ReplaceZ(s)).dt, FromIsoFormat(ReplaceZ(e)).dt)
         THEN "invalid"
    ELSE "ok"

\* get_consumption up to the call of the gRPC client: the HTTP error it
\* raises, or "forward".
GwResult(status, detail, resp) == [status |-> status, detail |-> detail, resp |-> resp]

GwValidate(s, e) ==
    IF GwBadBound(s) THEN GwResult(400, DetailBadStart, <<>>)
    ELSE IF GwBadBound(e) THEN GwResult(400, DetailBadEnd, <<>>)
    ELSE IF GwRangeCheck(s, e) = "TypeError" THEN GwResult(500, DetailUnhandled, <<>>)
    ELSE IF GwRangeCheck(s, e) = "invalid" THEN GwResult(400, DetailRange, <<>>)
    ELSE GwResult(0, "forward", <<>>)

\* The gateway's ConsumptionRecord built from a gRPC record; a float field
\* the server leaves unset reads as 0.0.
GwRecord(rec) ==
    [datetime |-> rec.datetime, energy_usage |-> rec.energy_usage, temperature |-> 0]

\* GRPCClient.get_consumption_data and the rest of get_consumption, given the
\* server's reply.  An RpcError (any status but OK) becomes 500 with the
\* server's details.  The loop over the records reads record.temperature:
\* when the generated message class has no such field (consumption.proto is
\* not part of the sources, and the server never sets the field) the first
\* record raises AttributeError, which `except Exception` turns into 500.
GwFromReply(reply, hasTemperature) ==
    IF reply.code # "OK" THEN GwResult(500, DetailGrpc(reply.details), <<>>)
    ELSE IF reply.resp # <<>> /\ ~hasTemperature
         THEN GwResult(500, DetailGatewayInternal, <<>>)
    ELSE GwResult(200, "", [i \in 1..Len(reply.resp) |-> GwRecord(reply.resp[i])])

\* ------------------------------------------------------------- the state
VARIABLES
    file,      \* meterusage.csv: [exists, header, rows]; never written
    pc,        \* serve(): "start", "loading", "serving" or "crashed"
    rowIdx,    \* the csv reader's position: the next row of the file
    records,   \* ConsumptionServicer.records
    loads,     \* how many times _load_csv_data has been entered
    thr,       \* the worker threads of the gRPC server, each in GetConsumptionData
    gw,        \* the HTTP gateway's request handler, get_consumption
    proto      \* whether consumption_pb2.ConsumptionRecord has a temperature field

vars == <<file, pc, rowIdx, records, loads, thr, gw, proto>>

Threads == 1..Workers

NoReply == Reply("none", "", <<>>)

\* A worker with no call: idx and filtered are the locals of _filter_records.
IdleThread ==
    [pc |-> "idle", origin |-> "none", s |-> EmptyStr, e |-> EmptyStr,
     start |-> DtNone, end |-> DtNone, idx |-> 1, filtered |-> <<>>,
     scanned |-> FALSE, reply |-> NoReply]

IdleGw ==
    [pc |-> "idle", s |-> PyNone, e |-> PyNone, forwarded |-> FALSE,
     result |-> GwResult(0, "", <<>>)]

\* ------------------------------------------------------------ the inputs
HeaderDtFirst == <<"DateTime", "EnergyUsage">>
HeaderUsageFirst == <<"EnergyUsage", "DateTime">>
HeaderNoUsage == <<"DateTime", "Usage">>

SeqsUpTo(S, n) == UNION {[1..k -> S] : k \in 0..n}

CsvFile(exists, header, rows) == [exists |-> exists, header |-> header, rows |-> rows]

MissingFile == CsvFile(FALSE, HeaderDtFirst, <<>>)

\* Files of full rows: every datetime text, with one usage value.
QueryRows == {<<d, Num(1)>> : d \in IsoTexts \cup {Junk}}
QueryFiles == {CsvFile(TRUE, HeaderDtFirst, rs) : rs \in SeqsUpTo(QueryRows, MaxRows)}

\* Files of any shape: short rows, texts that are no number, either column
\* order, a header without the EnergyUsage column; and no file at all.
LoadDtTexts == {Junk, Iso(0, "Z")}
LoadUsageTexts == {Junk, EmptyStr} \cup {Num(v) : v \in 1..MaxUsage}
ColumnTexts(name) == IF name = "DateTime" THEN LoadDtTexts ELSE LoadUsageTexts
\* (A line with one empty field is a blank line, which the reader skips.)
RowsOf(header) ==
    {<<a>> : a \in ColumnTexts(header[1]) \ {EmptyStr}}
        \cup {<<a, b>> : a \in ColumnTexts(header[1]), b \in ColumnTexts(header[2])}
LoadFiles ==
    {MissingFile} \cup
    {CsvFile(TRUE, h, rs) :
        h \in {HeaderDtFirst, HeaderUsageFirst, HeaderNoUsage},
        rs \in SeqsUpTo(RowsOf(HeaderDtFirst) \cup RowsOf(HeaderUsageFirst), MaxLoadRows)}

\* The bound texts a client may send.  A protobuf string field is never None.
RpcTexts == {EmptyStr, Junk} \cup IsoTexts
HttpTexts == {PyNone} \cup RpcTexts
FewRpcTexts == {EmptyStr, Iso(0, "Z")}
FewHttpTexts == {PyNone, Iso(0, "Z")}
ConcTexts == {EmptyStr, Iso(0, "Z"), Iso(1, "Z"), Iso(0, "")}

\* --------------------------------------------------------------- startup
InitWith(files) ==
    /\ file \in files
    /\ pc = "start"
    /\ rowIdx = 1
    /\ records = <<>>
    /\ loads = 0
    /\ thr = [t \in Threads |-> IdleThread]
    /\ gw = IdleGw
    /\ proto \in BOOLEAN

Init == InitWith(QueryFiles \cup {MissingFile})

\* serve() constructs the servicer, whose __init__ calls _load_csv_data:
\* open() raises FileNotFoundError, which is logged and re-raised.
OpenCsv ==
    /\ pc = "start"
    /\ loads' = loads + 1
    /\ pc' = IF file.exists THEN "loading" ELSE "crashed"
    /\ UNCHANGED <<proto, file, rowIdx, records, thr, gw>>

\* One iteration of `for row in reader`.
LoadRow ==
    /\ pc = "loading"
    /\ rowIdx <= Len(file.rows)
    /\ LET r == LoadRowResult(file.header, file.rows[rowIdx])
       IN  /\ records' = IF r.tag = "append" THEN Append(records, r.rec) ELSE records
           /\ pc' = IF r.tag = "abort" THEN "crashed" ELSE "loading"
    /\ rowIdx' = rowIdx + 1
    /\ UNCHANGED <<proto, file, loads, thr, gw>>

\* The reader is exhausted: __init__ returns, the servicer is registered and
\* server.start() opens the port.
ServerStart ==
    /\ pc = "loading"
    /\ rowIdx > Len(file.rows)
    /\ pc' = "serving"
    /\ UNCHANGED <<proto, file, rowIdx, records, loads, thr, gw>>

\* Accepting with the port opened before the servicer has loaded.
AcceptingEarly == pc \in {"loading", "serving"}

\* The port is open only after server.start().
Accepting == pc = "serving"

\* --------------------------------------------------- GetConsumptionData
\* The worker's state after lines 119-126: the bounds parsed and the range
\* validated.
ThreadOnReceive(origin, s, e) ==
    LET start == ParseDatetime(s)
        end == ParseDatetime(e)
        called == [IdleThread EXCEPT !.origin = origin, !.s = s, !.e = e,
                                     !.start = start, !.end = end]
    IN  IF RangeCheck(start, end) = "TypeError"
        THEN [called EXCEPT !.pc = "done", !.reply = Reply("INTERNAL", DetailInternal, <<>>)]
        ELSE IF RangeCheck(start, end) = "invalid"
        THEN [called EXCEPT !.pc = "done",
                            !.reply = Reply("INVALID_ARGUMENT", DetailRange, <<>>)]
        ELSE [called EXCEPT !.pc = "filter", !.scanned = TRUE]

Receive(t, origin, s, e) ==
    /\ Accepting
    /\ thr[t].pc = "idle"
    /\ thr' = [thr EXCEPT ![t] = ThreadOnReceive(origin, s, e)]

\* A gRPC client calls the server directly.
RpcCall(t, texts) ==
    /\ \E s \in texts, e \in texts : Receive(t, "rpc", s, e)
    /\ UNCHANGED <<proto, file, pc, rowIdx, records, loads, gw>>

\* Position with one iterator shared by all calls.
SharedPosition(t) == thr[1].idx

\* `for record in self.records`: each call iterates with an iterator of its own.
Position(t) == thr[t].idx

FilterStep(t) ==
    /\ thr[t].pc = "filter"
    /\ Position(t) <= Len(records)
    /\ LET rec == records[Position(t)]
           r == FilterOne(rec, thr[t].start, thr[t].end)
       IN  thr' = [thr EXCEPT ![t] =
                IF r = "TypeError"
                THEN [@ EXCEPT !.pc = "done",
                               !.reply = Reply("INTERNAL", DetailInternal, <<>>)]
                ELSE [@ EXCEPT !.idx = Position(t) + 1,
                               !.filtered = IF r = "keep"
                                            THEN AppendFiltered(@, rec) ELSE @]]
    /\ UNCHANGED <<proto, file, pc, rowIdx, records, loads, gw>>

\* _filter_records returns; the response is built and returned.
Respond(t) ==
    /\ thr[t].pc = "filter"
    /\ Position(t) > Len(records)
    /\ thr' = [thr EXCEPT ![t] =
            [@ EXCEPT !.pc = "done",
                      !.reply = Reply("OK", "", BuildResponse(thr[t].filtered))]]
    /\ UNCHANGED <<proto, file, pc, rowIdx, records, loads, gw>>

\* The direct client has its reply; the worker is free again.
Return(t) ==
    /\ thr[t].pc = "done"
    /\ thr[t].origin = "rpc"
    /\ thr' = [thr EXCEPT ![t] = IdleThread]
    /\ UNCHANGED <<proto, file, pc, rowIdx, records, loads, gw>>

\* ------------------------------------------------------------ the gateway
\* get_consumption, lines 172-196: validation.
GetConsumption(texts) ==
    /\ gw.pc = "idle"
    /\ \E s \in texts, e \in texts :
          gw' = [IdleGw EXCEPT !.s = s, !.e = e,
                               !.pc = IF GwValidate(s, e).detail = "forward"
                                      THEN "calling" ELSE "done",
                               !.result = GwValidate(s, e)]
    /\ UNCHANGED <<proto, file, pc, rowIdx, records, loads, thr>>

\* self.stub.GetConsumptionData(request) reaches a worker of the server.
StubCall(t) ==
    /\ gw.pc = "calling"
    /\ Receive(t, "gw", OrEmpty(gw.s), OrEmpty(gw.e))
    /\ gw' = [gw EXCEPT !.pc = "waiting", !.forwarded = TRUE]
    /\ UNCHANGED <<proto, file, pc, rowIdx, records, loads>>

\* The call finds no server listening: grpc.RpcError, turned into 500.
GwUnavailable ==
    /\ gw.pc = "calling"
    /\ ~Accepting
    /\ gw' = [gw EXCEPT !.pc = "done", !.forwarded = TRUE,
                        !.result = GwResult(500, DetailGrpc(DetailUnavailable), <<>>)]
    /\ UNCHANGED <<proto, file, pc, rowIdx, records, loads, thr>>

\* The worker's reply comes back and is re-shaped.
GwReply(t) ==
    /\ gw.pc = "waiting"
    /\ thr[t].pc = "done"
    /\ thr[t].origin = "gw"
    /\ gw' = [gw EXCEPT !.pc = "done", !.result = GwFromReply(thr[t].reply, proto)]
    /\ thr' = [thr EXCEPT ![t] = IdleThread]
    /\ UNCHANGED <<proto, file, pc, rowIdx, records, loads>>

\* The HTTP response is sent.
GwDone ==
    /\ gw.pc = "done"
    /\ gw' = IdleGw
    /\ UNCHANGED <<proto, file, pc, rowIdx, records, loads, thr>>

\* -------------------------------------------------------- specifications
\* No request is in progress.
Quiet == gw.pc = "idle" /\ \A t \in Threads : thr[t].pc = "idle"

Startup == OpenCsv \/ LoadRow \/ ServerStart

\* One client at a time, gRPC or HTTP, once the server is up.
SeqRpcCall == Quiet /\ RpcCall(1, RpcTexts)
SeqGetConsumption == Quiet /\ Accepting /\ GetConsumption(HttpTexts)

Next ==
    \/ Startup
    \/ SeqRpcCall \/ FilterStep(1) \/ Respond(1) \/ Return(1)
    \/ SeqGetConsumption \/ StubCall(1) \/ GwReply(1) \/ GwDone

Spec == Init /\ [][Next]_vars

\* Startup over files of any shape, with a few requests at any time.
InitLoad == InitWith(LoadFiles)
FewRpcCall == Quiet /\ RpcCall(1, FewRpcTexts)
FewGetConsumption == Quiet /\ GetConsumption(FewHttpTexts)

NextLoad ==
    \/ Startup
    \/ FewRpcCall \/ FilterStep(1) \/ Respond(1) \/ Return(1)
    \/ FewGetConsumption \/ StubCall(1) \/ GwUnavailable \/ GwReply(1) \/ GwDone

SpecLoad == InitLoad /\ [][NextLoad]_vars

\* The workers of the thread pool serve direct calls concurrently.
ConcRowsA == <<(<<Iso(0, "Z"), Num(1)>>), (<<Iso(1, "Z"), Num(2)>>), (<<Junk, Num(1)>>)>>
ConcRowsB == <<(<<Iso(1, "+01:00"), Num(1)>>), (<<Iso(0, ""), Num(2)>>)>>
ConcFiles == {CsvFile(TRUE, HeaderDtFirst, ConcRowsA), CsvFile(TRUE, HeaderDtFirst, ConcRowsB)}
InitConc == InitWith(ConcFiles)

NextConc ==
    \/ Startup
    \/ \E t \in Threads : RpcCall(t, ConcTexts) \/ FilterStep(t) \/ Respond(t) \/ Return(t)

SpecConc == InitConc /\ [][NextConc]_vars

\* ----------------------------------------------------------- the claims
\* get_consumption run alone against a serving server with the given store.
GatewayAlone(recs, s, e) ==
    IF GwValidate(s, e).detail # "forward" THEN GwValidate(s, e)
    ELSE GwFromReply(QueryAlone(recs, OrEmpty(s), OrEmpty(e)), proto)

Done(t) == thr[t].pc = "done"

\* A bound text that is present, non-empty and does not parse.
Malformed(s) == StrTruthy(s) /\ ~FromIsoFormat(ReplaceZ(s)).ok

\* A bound text that is present, non-empty and parses.
Parses(s) == StrTruthy(s) /\ FromIsoFormat(ReplaceZ(s)).ok

\* Both bound texts parse and start is the later instant.
Reversed(s, e) ==
    /\ Parses(s)
    /\ Parses(e)
    /\ Comparable(ParseDatetime(s), ParseDatetime(e))
    /\ Utc(ParseDatetime(s)) > Utc(ParseDatetime(e))

\* The range rule of the specification, section 4.2.  An instant is compared
\* with a bound only when both carry an offset or neither does; a record that
\* cannot be compared with a present bound is not in the range.
InRange(rec, start, end) ==
    /\ DtTruthy(rec.datetime_obj)
    /\ \/ ~DtTruthy(start)
       \/ Comparable(rec.datetime_obj, start) /\ Utc(rec.datetime_obj) >= Utc(start)
    /\ \/ ~DtTruthy(end)
       \/ Comparable(rec.datetime_obj, end) /\ Utc(rec.datetime_obj) <= Utc(end)

RangeOf(recs, start, end) ==
    LET Test(rec) == InRange(rec, start, end) IN SelectSeq(recs, Test)

\* A row the loader is to keep: both columns exist, the usage field is a
\* number and the datetime field is a text.
Storable(header, row) ==
    /\ HasColumn(header, "DateTime")
    /\ HasColumn(header, "EnergyUsage")
    /\ Field(header, row, "EnergyUsage").kind = "num"
    /\ Field(header, row, "DateTime").kind # "None"

\* A row whose usage field converts to a floating-point number.
Convertible(header, row) ==
    /\ HasColumn(header, "EnergyUsage")
    /\ Field(header, row, "EnergyUsage").kind = "num"

RecordOfRow(header, row) ==
    LET d == IF HasColumn(header, "DateTime") THEN Field(header, row, "DateTime") ELSE PyNone
    IN  [datetime_str |-> d,
         energy_usage |-> Field(header, row, "EnergyUsage").n,
         datetime_obj |-> ParseDatetime(d)]

StorableRecords(f, n) ==
    LET Test(row) == Storable(f.header, row)
        kept == SelectSeq(SubSeq(f.rows, 1, n), Test)
    IN  [i \in 1..Len(kept) |-> RecordOfRow(f.header, kept[i])]

ConvertibleRecords(f) ==
    LET Test(row) == Convertible(f.header, row)
        kept == SelectSeq(f.rows, Test)
    IN  [i \in 1..Len(kept) |-> RecordOfRow(f.header, kept[i])]

\* C1: _filter_records returns exactly the records of the store whose parsed
\* timestamp is present and lies within the inclusive bounds, for every store
\* and every pair of optional bounds: whenever a worker has run the filter
\* and replied, the reply lists exactly the records in range.
C1_FilterReturnsExactlyRange ==
    \A t \in Threads :
        (Done(t) /\ thr[t].scanned) =>
            thr[t].reply.resp
                = BuildResponse(RangeOf(records, thr[t].start, thr[t].end))

\* C2: a query whose two bounds both parse, with start after end, fails with
\* InvalidArgument and no records, whatever the store holds, and the range
\* filter is never run for it; the gateway answers it with 400 itself.
C2_ReversedRangeRejected ==
    /\ \A t \in Threads :
          (thr[t].pc # "idle" /\ Reversed(thr[t].s, thr[t].e)) =>
              /\ Done(t)
              /\ thr[t].reply = Reply("INVALID_ARGUMENT", DetailRange, <<>>)
              /\ ~thr[t].scanned
              /\ thr[t].filtered = <<>>
    /\ (gw.pc # "idle" /\ Reversed(gw.s, gw.e)) =>
          /\ gw.pc = "done"
          /\ gw.result = GwResult(400, DetailRange, <<>>)
          /\ ~gw.forwarded

\* C2 witness: a direct call with reversed bounds was rejected although the
\* store holds a record between end and start.
C2_Witness ==
    \E t \in Threads :
        /\ Done(t)
        /\ thr[t].origin = "rpc"
        /\ Reversed(thr[t].s, thr[t].e)
        /\ thr[t].reply.code = "INVALID_ARGUMENT"
        /\ RangeOf(records, thr[t].end, thr[t].start) # <<>>

\* C3: a query with a bound that is present, non-empty and does not parse
\* fails with InvalidArgument naming that bound, in the gRPC server as well as
\* in the gateway; it never returns records as if the bound were absent.
C3_MalformedBoundRejected ==
    /\ \A t \in Threads :
          (Done(t) /\ (Malformed(thr[t].s) \/ Malformed(thr[t].e))) =>
              thr[t].reply.code = "INVALID_ARGUMENT"
    /\ (gw.pc = "done" /\ Malformed(gw.s)) => gw.result = GwResult(400, DetailBadStart, <<>>)
    /\ (gw.pc = "done" /\ ~Malformed(gw.s) /\ Malformed(gw.e)) =>
          gw.result = GwResult(400, DetailBadEnd, <<>>)

\* An empty bound read as an absent one.
AbsentIfEmpty(s) == IF s = EmptyStr THEN PyNone ELSE s

\* C4: the empty string and an absent bound are the same "unbounded" signal:
\* a gateway request with an empty bound ends exactly as the same request
\* with that bound absent would, for every store and every other bound, the
\* empty bound itself is never reported as malformed, and neither the gateway
\* nor the server applies the start > end check when a bound is empty.
C4_EmptyIsAbsent ==
    /\ (gw.pc = "done" /\ (gw.s = EmptyStr \/ gw.e = EmptyStr)) =>
          /\ gw.result = GatewayAlone(records, AbsentIfEmpty(gw.s), AbsentIfEmpty(gw.e))
          /\ gw.result.detail # DetailRange
          /\ gw.s = EmptyStr => gw.result.detail # DetailBadStart
          /\ gw.e = EmptyStr => gw.result.detail # DetailBadEnd
    /\ \A t \in Threads :
          (Done(t) /\ (thr[t].s = EmptyStr \/ thr[t].e = EmptyStr)) =>
              /\ thr[t].reply.code # "INVALID_ARGUMENT"
              /\ thr[t].scanned

\* C4 witness: a gateway request with an empty start and a parsable end was
\* answered with a non-empty record list.
C4_Witness ==
    /\ gw.pc = "done"
    /\ gw.s = EmptyStr
    /\ Parses(gw.e)
    /\ gw.forwarded
    /\ gw.result.status = 200
    /\ gw.result.resp # <<>>

\* C5: once the file is open no row aborts the load: startup fails only when
\* the file cannot be opened, and the store of a serving server is exactly
\* the rows whose usage field converts, in order.
C5_LoadNeverAbortsOnRow ==
    /\ pc = "crashed" => ~file.exists
    /\ pc = "serving" => records = ConvertibleRecords(file)

\* C6: order is preserved end to end: the store is the kept rows read so far
\* in source row order, the filter's partial result is the records in range
\* among those scanned, in store order, and every record list returned is the
\* records in range in store order, duplicates kept, nothing cut.
C6_OrderPreserved ==
    /\ pc # "start" => records = StorableRecords(file, rowIdx - 1)
    /\ \A t \in Threads :
          /\ thr[t].pc = "filter" =>
                thr[t].filtered
                    = RangeOf(SubSeq(records, 1, thr[t].idx - 1), thr[t].start, thr[t].end)
          /\ (Done(t) /\ thr[t].reply.code = "OK") =>
                thr[t].reply.resp
                    = BuildResponse(RangeOf(records, thr[t].start, thr[t].end))

\* C6 witness: a store of two different records with the same instant, both
\* returned in store order to a bounded query.
C6_Witness ==
    \E t \in Threads :
        /\ Done(t)
        /\ thr[t].reply.code = "OK"
        /\ DtTruthy(thr[t].start)
        /\ Len(records) = 2
        /\ records[1] # records[2]
        /\ Utc(records[1].datetime_obj) = Utc(records[2].datetime_obj)
        /\ thr[t].reply.resp = BuildResponse(records)

\* C7: a query ends with a record list or with InvalidArgument: Internal is
\* never produced by the server, and no untagged fault leaves the gateway's
\* range validation.
C7_NeverInternal ==
    /\ \A t \in Threads : Done(t) => thr[t].reply.code \in {"OK", "INVALID_ARGUMENT"}
    /\ gw.pc = "done" => gw.result.detail # DetailUnhandled

\* C8: the load happens once and is complete before any query is served: a
\* worker is in a call only while the server is serving, with the whole file
\* read into the store; a file that cannot be opened is fatal, the load is
\* not entered again and the server never serves.
C8_LoadOnceBeforeServing ==
    /\ loads <= 1
    /\ \A t \in Threads : thr[t].pc # "idle" => pc = "serving"
    /\ gw.pc = "waiting" => pc = "serving"
    /\ pc = "serving" =>
          /\ loads = 1
          /\ file.exists
          /\ rowIdx = Len(file.rows) + 1
          /\ records = StorableRecords(file, Len(file.rows))
    /\ ~file.exists => (pc \in {"start", "crashed"} /\ records = <<>>)
    /\ pc = "crashed" => \A t \in Threads : thr[t] = IdleThread

\* C8 witness: a query was answered with records from a store loaded from a
\* file with a dropped row.
C8_Witness ==
    \E t \in Threads :
        /\ Done(t)
        /\ thr[t].reply.code = "OK"
        /\ thr[t].reply.resp # <<>>
        /\ Len(records) < Len(file.rows)
        /\ loads = 1

\* C9: queries are pure: while workers run calls in any interleaving the
\* store stays what the load made it, every reply equals the reply of that
\* query run alone, and two calls with the same bound texts get equal replies.
C9_QueriesPure ==
    /\ pc = "serving" => records = StorableRecords(file, Len(file.rows))
    /\ \A t \in Threads : Done(t) => thr[t].reply = QueryAlone(records, thr[t].s, thr[t].e)
    /\ \A t, u \in Threads :
          (Done(t) /\ Done(u) /\ thr[t].s = thr[u].s /\ thr[t].e = thr[u].e) =>
              thr[t].reply = thr[u].reply

\* C9 witness: two workers hold replies to the same bounded query, a
\* non-empty list that leaves out part of the store.
C9_Witness ==
    \E t, u \in Threads :
        /\ t # u
        /\ Done(t)
        /\ Done(u)
        /\ thr[t].s = thr[u].s
        /\ thr[t].e = thr[u].e
        /\ DtTruthy(thr[t].start)
        /\ thr[t].reply.code = "OK"
        /\ thr[t].reply.resp # <<>>
        /\ Len(thr[t].reply.resp) < Len(records)

\* A request that passes all of the gateway's validation.
PassesValidation(s, e) ==
    /\ ~Malformed(s)
    /\ ~Malformed(e)
    /\ ~Reversed(s, e)
    /\ (Parses(s) /\ Parses(e)) => Comparable(ParseDatetime(s), ParseDatetime(e))

\* C10: the gateway validates before it forwards: a request with a malformed
\* bound or with reversed bounds is answered 400 without a call to the gRPC
\* server, only requests that passed validation are forwarded, and no
\* forwarded request is rejected by the server with INVALID_ARGUMENT.
C10_GatewayValidatesFirst ==
    /\ (gw.pc # "idle" /\ (Malformed(gw.s) \/ Malformed(gw.e) \/ Reversed(gw.s, gw.e))) =>
          /\ gw.pc = "done"
          /\ gw.result.status = 400
          /\ ~gw.forwarded
    /\ (gw.pc \in {"calling", "waiting"} \/ gw.forwarded) => PassesValidation(gw.s, gw.e)
    /\ \A t \in Threads :
          thr[t].origin = "gw" =>
              /\ gw.pc = "waiting"
              /\ thr[t].s = OrEmpty(gw.s)
              /\ thr[t].e = OrEmpty(gw.e)
              /\ thr[t].reply.code # "INVALID_ARGUMENT"

\* C10 witness: a forwarded request with two parsable bounds was answered by
\* the server with a non-empty list.
C10_Witness ==
    \E t \in Threads :
        /\ Done(t)
        /\ thr[t].origin = "gw"
        /\ gw.forwarded
        /\ Parses(gw.s)
        /\ Parses(gw.e)
        /\ thr[t].reply.code = "OK"
        /\ thr[t].reply.resp # <<>>

====
